---- MODULE Spec2Model ----
(***************************************************************************)
(* Model of the moderation core of the LiveKit AI moderation console:     *)
(* the policy registry, the classify -> score -> decide -> action         *)
(* pipeline, the decision ledger and the audit ledger                     *)
(* (src/backend/app).                                                     *)
(*                                                                         *)
(* Numbers.  Thresholds and confidences are floats in [0,1] in the code;  *)
(* here they are integers in hundredths (0.85 is 85).  The code only      *)
(* compares and clamps them, which integers do identically.               *)
(*                                                                         *)
(* Scheduling.  Everything runs on one asyncio event loop.  The stores'   *)
(* get/set/append never suspend: get has no await inside, and set/append  *)
(* take an asyncio.Lock that is only ever held across a plain assignment  *)
(* (storage.py:24-27, 58-62), so it is always free when requested and     *)
(* acquiring it does not yield.  A handler therefore runs without         *)
(* interleaving from its first store read to its last store write; the    *)
(* points where other work can run are the oracle calls, the boundaries   *)
(* between pipeline nodes, and the broadcast sends that follow the        *)
(* writes.  Each action below is one such uninterrupted stretch.          *)
(*                                                                         *)
(* Objects.  InMemoryStore.get returns the stored object itself, not a    *)
(* copy, and pydantic models accept attribute assignment, so a handler    *)
(* that assigns to a field of the object it read has changed the stored   *)
(* record at that moment, before (and whether or not) it calls set.       *)
(*                                                                         *)
(* Left out: timestamps (created_at, updated_at, timestamp), the audit    *)
(* entry's reason text and audit_id, which no operation reads back.       *)
(***************************************************************************)
EXTENDS Integers, Sequences, FiniteSets, TLC

\* ---------------------------------------------------------------- bounds
\* Pipeline runs (content events) in one behaviour.
MaxRuns == 2
\* API calls in one behaviour (content events, policy and decision calls).
MaxCalls == 4
\* Policy API calls (update, toggle) among them.
MaxPolicyCalls == 2

\* Python's None, where the other values are strings.
None == "None"

\* An optional value that is not a string: <<>> is None, <<v>> is the value v.
Nothing == <<>>
Some(v) == <<v>>

\* ---------------------------------------------------------------- enums
\* models/policy.py PolicyCategory
PolicyCategory == {"harassment", "hate_speech", "spam", "violence", "adult_content"}

\* models/moderation.py PolicyCategory (with NONE)
ModerationCategory == PolicyCategory \cup {"none"}

ModerationAction == {"none", "warn", "mute", "flag_for_review"}

ModerationStatus == {"pending", "executed", "reviewed", "overturned"}

AuditActionType ==
  {"decision_created", "action_executed", "policy_updated", "decision_reviewed",
   "decision_overturned", "participant_warned", "participant_muted", "content_flagged"}

\* ---------------------------------------------------------------- stores
VARIABLES
  policies,    \* policies_store._data: policy_id -> Policy
  decisions,   \* decisions_store._data: decision_id -> ModerationDecision
  audit,       \* audit_store._data: sequence of AuditLogEntry
  runs,        \* one ModerationState (plus the node about to run) per content event
  broadcasts,  \* messages handed to manager.broadcast, in order
  resp,        \* the response of the latest policy or decision API call
  calls        \* API calls made so far

vars == <<policies, decisions, audit, runs, broadcasts, resp, calls>>

\* InMemoryStore.get returns the stored object itself; StoreHas is its
\* "is not None" test.
StoreHas(store, key) == key \in DOMAIN store

StoreGet(store, key) == store[key]

\* InMemoryStore.set: self._data[key] = value.
StoreSet(store, key, value) ==
  [k \in DOMAIN store \cup {key} |-> IF k = key THEN value ELSE store[k]]

\* An append that puts the newest entry first.
StoreAppend_newest_first(log, item) == <<item>> \o log

\* AppendOnlyStore.append.
StoreAppend(log, item) == Append(log, item)

\* AuditLogEntry(decision_id, action_type, actor, metadata).
AuditLogEntry(decision_id, action_type, actor, metadata) ==
  [decision_id |-> decision_id, action_type |-> action_type,
   actor |-> actor, metadata |-> metadata]

\* ---------------------------------------------------------------- policies
\* Insertion order of the seeded registry (dict order of policies_store._data).
PolicyOrder ==
  <<"policy-harassment", "policy-hate-speech", "policy-spam",
    "policy-violence", "policy-adult-content">>

Policy(id, name, category, warn, mute, flag, enabled) ==
  [policy_id |-> id, name |-> name, category |-> category,
   description |-> "default", warn_threshold |-> warn,
   mute_threshold |-> mute, flag_threshold |-> flag, enabled |-> enabled]

\* initialize_default_policies: the five seeded policies.
DefaultPolicies ==
  LET seed == <<
        Policy("policy-harassment", "Harassment", "harassment", 50, 70, 85, TRUE),
        Policy("policy-hate-speech", "Hate Speech", "hate_speech", 40, 60, 75, TRUE),
        Policy("policy-spam", "Spam", "spam", 60, 80, 90, TRUE),
        Policy("policy-violence", "Violence", "violence", 40, 60, 75, TRUE),
        Policy("policy-adult-content", "Adult Content", "adult_content", 50, 70, 85, TRUE) >>
  IN [id \in {seed[i].policy_id : i \in 1..Len(seed)} |->
        (CHOOSE p \in {seed[i] : i \in 1..Len(seed)} : p.policy_id = id)]

\* Policy ids the API calls name: a seeded one and one that does not exist.
PolicyTargets == {"policy-spam", "policy-missing"}

\* PolicyUpdate bodies: each field is None (not supplied) or a value; the
\* thresholds pass PolicyUpdate's ge=0.0, le=1.0 validation.
NameInputs == {Nothing}
DescriptionInputs == {Nothing}
WarnInputs == {Nothing, Some(0), Some(90)}
MuteInputs == {Nothing, Some(50)}
FlagInputs == {Nothing}
EnabledInputs == {Nothing, Some(FALSE)}

PolicyUpdate ==
  [name : NameInputs, description : DescriptionInputs, warn_threshold : WarnInputs,
   mute_threshold : MuteInputs, flag_threshold : FlagInputs, enabled : EnabledInputs]

\* The assignments of update_policy (policies.py:61-83): every supplied field
\* is written to the policy object.
ApplyUpdate(policy, update) ==
  [f \in DOMAIN policy |->
     IF f \in DOMAIN update /\ update[f] # Nothing THEN update[f][1] ELSE policy[f]]

\* The changes map of update_policy: one {old, new} per supplied field.
Changes(policy, update) ==
  [f \in {g \in DOMAIN update : update[g] # Nothing} |->
     [old |-> policy[f], new |-> update[f][1]]]

\* policies.py:86: warn <= mute <= flag.
ThresholdsOrdered(policy) ==
  /\ policy.warn_threshold <= policy.mute_threshold
  /\ policy.mute_threshold <= policy.flag_threshold

\* One more API call of a kind ("policy", "decision", "content"), within the
\* bounds.
Call(kind) ==
  /\ calls.policy + calls.decision + calls.content < MaxCalls
  /\ kind = "policy" => calls.policy < MaxPolicyCalls
  /\ calls' = [calls EXCEPT ![kind] = @ + 1]

Response(op, id, result) == [op |-> op, id |-> id, result |-> result]

\* PUT /policies/{policy_id}
update_policy(policy_id, update) ==
  /\ Call("policy")
  /\ UNCHANGED <<decisions, runs>>
  /\ IF ~StoreHas(policies, policy_id)
     THEN /\ resp' = Response("update_policy", policy_id, "NotFound")
          /\ UNCHANGED <<policies, audit, broadcasts>>
     ELSE LET policy == StoreGet(policies, policy_id)
              changes == Changes(policy, update)
              written == ApplyUpdate(policy, update)
          IN IF ~ThresholdsOrdered(written)
             THEN \* the object read from the store already carries the
                  \* assignments when the 400 is raised
                  /\ policies' = [policies EXCEPT ![policy_id] = written]
                  /\ resp' = Response("update_policy", policy_id, "InvalidThresholds")
                  /\ UNCHANGED <<audit, broadcasts>>
             ELSE /\ policies' = StoreSet(policies, policy_id, written)
                  /\ resp' = Response("update_policy", policy_id, "success")
                  /\ IF DOMAIN changes # {}
                     THEN LET entry == AuditLogEntry(None, "policy_updated", "admin",
                                         [policy_id |-> policy_id, changes |-> changes])
                          IN /\ audit' = StoreAppend(audit, entry)
                             /\ broadcasts' = Append(broadcasts, <<"audit:entry", entry>>)
                     ELSE UNCHANGED <<audit, broadcasts>>

\* toggle_policy that registers a policy under an id it does not know.
toggle_policy_upserting(policy_id) ==
  /\ Call("policy")
  /\ UNCHANGED <<decisions, runs>>
  /\ LET policy == IF StoreHas(policies, policy_id) THEN StoreGet(policies, policy_id)
                   ELSE Policy(policy_id, "Spam", "spam", 60, 80, 90, FALSE)
         written == [policy EXCEPT !.enabled = ~policy.enabled]
         entry == AuditLogEntry(None, "policy_updated", "admin",
                    [policy_id |-> policy_id, old_enabled |-> policy.enabled,
                     new_enabled |-> written.enabled])
     IN /\ policies' = StoreSet(policies, policy_id, written)
        /\ audit' = StoreAppend(audit, entry)
        /\ broadcasts' = Append(broadcasts, <<"audit:entry", entry>>)
        /\ resp' = Response("toggle_policy", policy_id, "success")

\* toggle_policy that switches a policy on only when its thresholds are in
\* order.
toggle_policy_validating(policy_id) ==
  /\ Call("policy")
  /\ UNCHANGED <<decisions, runs>>
  /\ IF ~StoreHas(policies, policy_id)
     THEN /\ resp' = Response("toggle_policy", policy_id, "NotFound")
          /\ UNCHANGED <<policies, audit, broadcasts>>
     ELSE LET policy == StoreGet(policies, policy_id)
              written == [policy EXCEPT !.enabled = ~policy.enabled]
              entry == AuditLogEntry(None, "policy_updated", "admin",
                         [policy_id |-> policy_id, old_enabled |-> policy.enabled,
                          new_enabled |-> written.enabled])
          IN IF ~ThresholdsOrdered(policy)
             THEN /\ resp' = Response("toggle_policy", policy_id, "InvalidThresholds")
                  /\ UNCHANGED <<policies, audit, broadcasts>>
             ELSE /\ policies' = StoreSet(policies, policy_id, written)
                  /\ audit' = StoreAppend(audit, entry)
                  /\ broadcasts' = Append(broadcasts, <<"audit:entry", entry>>)
                  /\ resp' = Response("toggle_policy", policy_id, "success")

\* POST /policies/{policy_id}/toggle
toggle_policy(policy_id) ==
  /\ Call("policy")
  /\ UNCHANGED <<decisions, runs>>
  /\ IF ~StoreHas(policies, policy_id)
     THEN /\ resp' = Response("toggle_policy", policy_id, "NotFound")
          /\ UNCHANGED <<policies, audit, broadcasts>>
     ELSE LET policy == StoreGet(policies, policy_id)
              written == [policy EXCEPT !.enabled = ~policy.enabled]
              entry == AuditLogEntry(None, "policy_updated", "admin",
                         [policy_id |-> policy_id, old_enabled |-> policy.enabled,
                          new_enabled |-> written.enabled])
          IN /\ policies' = StoreSet(policies, policy_id, written)
             /\ audit' = StoreAppend(audit, entry)
             /\ broadcasts' = Append(broadcasts, <<"audit:entry", entry>>)
             /\ resp' = Response("toggle_policy", policy_id, "success")

\* ---------------------------------------------------------------- oracles
\* What the classification chain (prompt | llm | parser) can hand back: it
\* raises, it returns something that is not a dict, or it returns a dict whose
\* "category" is absent (Nothing) or some string.
ClassifierResults ==
  {[kind |-> "raise", category |-> Nothing],
   [kind |-> "not_dict", category |-> Nothing],
   [kind |-> "dict", category |-> Nothing]}
  \cup {[kind |-> "dict", category |-> Some(c)] : c \in {"spam", "SPAM", "none", "bogus", ""}}

\* str.lower() on the category strings above.
Lower(str) == IF str = "SPAM" THEN "spam" ELSE str

\* classify with the category string turned into the enum without the
\* category_map default: a string naming no category passes through.
classify_passthrough(result) ==
  IF result.kind = "raise" THEN <<"none", "Classification error">>
  ELSE IF result.kind = "not_dict" THEN <<"none", "Unexpected response format from LLM">>
  ELSE LET got == IF result.category = Nothing THEN "none" ELSE result.category[1]
       IN <<Lower(got), "llm reasoning">>

\* ContentClassifier.classify: <<category, reasoning>>; never raises.
classify(result) ==
  IF result.kind = "raise" THEN <<"none", "Classification error">>
  ELSE IF result.kind = "not_dict" THEN <<"none", "Unexpected response format from LLM">>
  ELSE LET got == IF result.category = Nothing THEN "none" ELSE result.category[1]
           category_str == IF got # "" THEN Lower(got) ELSE "none"
       IN <<IF category_str \in ModerationCategory THEN category_str ELSE "none",
            "llm reasoning">>

\* What the scoring chain can hand back: it raises (or returns something
\* float() or .get() rejects), or a dict whose "confidence" is absent or a number,
\* not necessarily within 0..1.
ScorerResults ==
  {[kind |-> "raise", confidence |-> Nothing], [kind |-> "dict", confidence |-> Nothing]}
  \cup {[kind |-> "dict", confidence |-> Some(c)] : c \in {-5, 65, 85, 120}}

Min(a, b) == IF a <= b THEN a ELSE b
Max(a, b) == IF a >= b THEN a ELSE b

\* score without the test for category none: the chain is invoked for every
\* category.
score_always_calling(category, result) ==
  IF result.kind = "raise" THEN <<0, "Scoring error">>
  ELSE LET confidence == IF result.confidence = Nothing THEN 0 ELSE result.confidence[1]
       IN <<Max(0, Min(100, confidence)), "llm factors">>

\* ConfidenceScorer.score: <<confidence, factors>>; never raises.  With
\* category none the chain is not invoked and `result` is not looked at.
score(category, result) ==
  IF category = "none" THEN <<0, "No violation detected">>
  ELSE IF result.kind = "raise" THEN <<0, "Scoring error">>
  ELSE LET confidence == IF result.confidence = Nothing THEN 0 ELSE result.confidence[1]
       IN <<Max(0, Min(100, confidence)), "llm factors">>

\* ---------------------------------------------------------------- decider
\* ActionDecider._get_policy_for_category: the first policy, in the store's
\* order, whose category matches; its id, or None.
get_policy_for_category(registry, category) ==
  LET matching == {i \in 1..Len(PolicyOrder) :
                     /\ PolicyOrder[i] \in DOMAIN registry
                     /\ registry[PolicyOrder[i]].category = category}
  IN IF matching = {} THEN None
     ELSE PolicyOrder[CHOOSE i \in matching : \A j \in matching : i <= j]

\* decide comparing with > instead of >=.
decide_strict(registry, category, confidence) ==
  IF category = "none" THEN <<"none", None>>
  ELSE LET id == get_policy_for_category(registry, category) IN
       IF id = None THEN <<"none", None>>
       ELSE LET policy == registry[id] IN
            IF ~policy.enabled THEN <<"none", None>>
            ELSE IF confidence > policy.flag_threshold THEN <<"flag_for_review", policy.policy_id>>
            ELSE IF confidence > policy.mute_threshold THEN <<"mute", policy.policy_id>>
            ELSE IF confidence > policy.warn_threshold THEN <<"warn", policy.policy_id>>
            ELSE <<"none", policy.policy_id>>

\* decide without the `not policy.enabled` test.
decide_ignores_enabled(registry, category, confidence) ==
  IF category = "none" THEN <<"none", None>>
  ELSE LET id == get_policy_for_category(registry, category) IN
       IF id = None THEN <<"none", None>>
       ELSE LET policy == registry[id] IN
            IF confidence >= policy.flag_threshold THEN <<"flag_for_review", policy.policy_id>>
            ELSE IF confidence >= policy.mute_threshold THEN <<"mute", policy.policy_id>>
            ELSE IF confidence >= policy.warn_threshold THEN <<"warn", policy.policy_id>>
            ELSE <<"none", policy.policy_id>>

\* decide returning (none, None) below the warn threshold.
decide_drops_policy_id(registry, category, confidence) ==
  IF category = "none" THEN <<"none", None>>
  ELSE LET id == get_policy_for_category(registry, category) IN
       IF id = None THEN <<"none", None>>
       ELSE LET policy == registry[id] IN
            IF ~policy.enabled THEN <<"none", None>>
            ELSE IF confidence >= policy.flag_threshold THEN <<"flag_for_review", policy.policy_id>>
            ELSE IF confidence >= policy.mute_threshold THEN <<"mute", policy.policy_id>>
            ELSE IF confidence >= policy.warn_threshold THEN <<"warn", policy.policy_id>>
            ELSE <<"none", None>>

\* decide with the actions of the mute and warn thresholds exchanged.
decide_exchanged(registry, category, confidence) ==
  IF category = "none" THEN <<"none", None>>
  ELSE LET id == get_policy_for_category(registry, category) IN
       IF id = None THEN <<"none", None>>
       ELSE LET policy == registry[id] IN
            IF ~policy.enabled THEN <<"none", None>>
            ELSE IF confidence >= policy.flag_threshold THEN <<"flag_for_review", policy.policy_id>>
            ELSE IF confidence >= policy.mute_threshold THEN <<"warn", policy.policy_id>>
            ELSE IF confidence >= policy.warn_threshold THEN <<"mute", policy.policy_id>>
            ELSE <<"none", policy.policy_id>>

\* ActionDecider.decide: <<action, policy_id>>.
decide(registry, category, confidence) ==
  IF category = "none" THEN <<"none", None>>
  ELSE LET id == get_policy_for_category(registry, category) IN
       IF id = None THEN <<"none", None>>
       ELSE LET policy == registry[id] IN
            IF ~policy.enabled THEN <<"none", None>>
            ELSE IF confidence >= policy.flag_threshold THEN <<"flag_for_review", policy.policy_id>>
            ELSE IF confidence >= policy.mute_threshold THEN <<"mute", policy.policy_id>>
            ELSE IF confidence >= policy.warn_threshold THEN <<"warn", policy.policy_id>>
            ELSE <<"none", policy.policy_id>>

\* ---------------------------------------------------------------- pipeline
\* ModerationInput of a content event.
Inputs ==
  {[room_id |-> "room-1", participant_id |-> "user-1",
    participant_identity |-> "alice", content |-> "hello world",
    content_type |-> "text", metadata |-> None]}

\* moderate_content's initial_state, about to enter the classify node.
InitialState(input) ==
  [pc |-> "classify", input |-> input, category |-> None,
   classification_reasoning |-> None, confidence |-> Nothing, scoring_factors |-> None,
   action |-> None, policy_id |-> None, decision |-> None, error |-> None]

\* A content event arrives: moderate_content(input) builds the state and
\* invokes the pipeline.
moderate_content(input) ==
  /\ Len(runs) < MaxRuns
  /\ Call("content")
  /\ runs' = Append(runs, InitialState(input))
  /\ UNCHANGED <<policies, decisions, audit, broadcasts, resp>>

\* get_classifier (classifier.py:96-101) builds the ContentClassifier on first
\* use and keeps it.  The constructor hands settings.openai_api_key to
\* ChatOpenAI, which raises when no key is configured (config.py:39-40 warns
\* of it); the settings are cached, so a deployment where the constructor
\* raised once raises on every later call, and one where it succeeded keeps
\* the instance.  Whether the classifier was built, or could not be, shows
\* in the runs: one that got past get_classifier, one that raised there.
ClassifierObtained == {"ok", "raise"}

ClassifierBuilt == \E r \in 1..Len(runs) : runs[r].pc \notin {"classify", "raised"}

ClassifierBroken == \E r \in 1..Len(runs) : runs[r].pc = "raised"

\* classify_node.  get_classifier() is called before the try (pipeline.py:46):
\* when it raises, the exception leaves the node, the graph and
\* moderate_content, and the run ends there ("raised") with no decision.
\* classifier.classify swallows every failure of the chain, so the node's own
\* except branch is not taken.
classify_node(r, obtained, result) ==
  /\ runs[r].pc = "classify"
  /\ IF obtained = "raise"
     THEN /\ ~ClassifierBuilt
          /\ runs' = [runs EXCEPT ![r].pc = "raised", ![r].error = "get_classifier"]
     ELSE /\ ~ClassifierBroken
          /\ LET out == classify(result) IN
             runs' = [runs EXCEPT ![r].pc = "score", ![r].category = out[1],
                                  ![r].classification_reasoning = out[2]]
  /\ UNCHANGED <<policies, decisions, audit, broadcasts, resp, calls>>

\* score_node.  get_scorer() (pipeline.py:72) builds the ConfidenceScorer with
\* the constructor arguments the classifier of this run was built with
\* (scorer.py:45-53, classifier.py:41-49), so it does not raise here.
score_node(r, result) ==
  /\ runs[r].pc = "score"
  /\ LET out == score(runs[r].category, result) IN
     runs' = [runs EXCEPT ![r].pc = "decide", ![r].confidence = Some(out[1]),
                          ![r].scoring_factors = out[2]]
  /\ UNCHANGED <<policies, decisions, audit, broadcasts, resp, calls>>

\* decide_node with a decider that switches a policy off once it has flagged
\* content under it.
decide_node_disabling(r) ==
  /\ runs[r].pc = "decide"
  /\ LET out == decide(policies, runs[r].category, runs[r].confidence[1]) IN
     /\ runs' = [runs EXCEPT ![r].pc = "action", ![r].action = out[1],
                             ![r].policy_id = out[2]]
     /\ policies' = IF out[1] = "flag_for_review"
                    THEN [policies EXCEPT ![out[2]].enabled = FALSE]
                    ELSE policies
  /\ UNCHANGED <<decisions, audit, broadcasts, resp, calls>>

\* decide_node
decide_node(r) ==
  /\ runs[r].pc = "decide"
  /\ LET out == decide(policies, runs[r].category, runs[r].confidence[1]) IN
     runs' = [runs EXCEPT ![r].pc = "action", ![r].action = out[1],
                          ![r].policy_id = out[2]]
  /\ UNCHANGED <<policies, decisions, audit, broadcasts, resp, calls>>

\* decision_id of the n-th decision created (uuid4 in the code: fresh).
DecisionIds == <<"dec-1", "dec-2", "dec-3", "dec-4", "dec-5", "dec-6">>

NewDecisionId == DecisionIds[Cardinality(DOMAIN decisions) + 1]

\* The action_type_map lookup always falling to its default.
ActionAuditType_default(action) == "action_executed"

\* ActionExecutor._execute_action's action_type_map, with its default.
ActionAuditType(action) ==
  IF action = "warn" THEN "participant_warned"
  ELSE IF action = "mute" THEN "participant_muted"
  ELSE IF action = "flag_for_review" THEN "content_flagged"
  ELSE "action_executed"

\* ActionExecutor._create_audit_entry: actor is always ai.
create_audit_entry(decision_id, action_type, metadata) ==
  AuditLogEntry(decision_id, action_type, "ai", metadata)

\* execute whose second entry is written with the first one's action_type.
execute_mislabelled(id, input, category, confidence, action, policy_id, reasoning) ==
  LET decision == [decision_id |-> id, room_id |-> input.room_id,
                   participant_id |-> input.participant_id,
                   participant_identity |-> input.participant_identity,
                   content |-> input.content, content_type |-> input.content_type,
                   classification |-> category, confidence_score |-> confidence,
                   action |-> action, status |-> "pending", policy_id |-> policy_id,
                   reasoning |-> reasoning, metadata |-> input.metadata]
      stored == StoreSet(decisions, id, decision)
      created == StoreAppend(audit,
                   create_audit_entry(id, "decision_created",
                                      [decision |-> decision, input |-> input]))
  IN IF action # "none"
     THEN <<StoreSet(stored, id, [decision EXCEPT !.status = "executed"]),
            StoreAppend(created,
              create_audit_entry(id, "decision_created",
                                 [action |-> action,
                                  participant_id |-> input.participant_id,
                                  participant_identity |-> input.participant_identity,
                                  room_id |-> input.room_id,
                                  classification |-> category,
                                  confidence |-> confidence]))>>
     ELSE <<stored, created>>

\* execute_writes carrying out the action before recording the decision's
\* creation: the status and enforcement writes come ahead of the
\* decision_created entry.
execute_writes_action_first(id, input, category, confidence, action, policy_id, reasoning) ==
  LET decision == [decision_id |-> id, room_id |-> input.room_id,
                   participant_id |-> input.participant_id,
                   participant_identity |-> input.participant_identity,
                   content |-> input.content, content_type |-> input.content_type,
                   classification |-> category, confidence_score |-> confidence,
                   action |-> action, status |-> "pending", policy_id |-> policy_id,
                   reasoning |-> reasoning, metadata |-> input.metadata]
      created ==
        << [store |-> "audit",
            value |-> create_audit_entry(id, "decision_created",
                                         [decision |-> decision, input |-> input])] >>
  IN IF action # "none"
     THEN << [store |-> "decisions", value |-> decision],
             [store |-> "decisions", value |-> [decision EXCEPT !.status = "executed"]],
             [store |-> "audit",
              value |-> create_audit_entry(id, ActionAuditType(action),
                          [action |-> action,
                           participant_id |-> input.participant_id,
                           participant_identity |-> input.participant_identity,
                           room_id |-> input.room_id,
                           classification |-> category,
                           confidence |-> confidence])] >> \o created
     ELSE << [store |-> "decisions", value |-> decision] >> \o created

\* execute_writes that marks every decision executed, also one with action
\* none.
execute_writes_always_executed(id, input, category, confidence, action, policy_id, reasoning) ==
  LET decision == [decision_id |-> id, room_id |-> input.room_id,
                   participant_id |-> input.participant_id,
                   participant_identity |-> input.participant_identity,
                   content |-> input.content, content_type |-> input.content_type,
                   classification |-> category, confidence_score |-> confidence,
                   action |-> action, status |-> "pending", policy_id |-> policy_id,
                   reasoning |-> reasoning, metadata |-> input.metadata]
      creation ==
        << [store |-> "decisions", value |-> decision],
           [store |-> "audit",
            value |-> create_audit_entry(id, "decision_created",
                                         [decision |-> decision, input |-> input])],
           [store |-> "decisions", value |-> [decision EXCEPT !.status = "executed"]] >>
  IN IF action # "none"
     THEN creation \o
          << [store |-> "audit",
              value |-> create_audit_entry(id, ActionAuditType(action),
                          [action |-> action,
                           participant_id |-> input.participant_id,
                           participant_identity |-> input.participant_identity,
                           room_id |-> input.room_id,
                           classification |-> category,
                           confidence |-> confidence])] >>
     ELSE creation

\* The store writes of ActionExecutor.execute with _execute_action, in the
\* order the code makes them: decisions_store.set (actions.py:50),
\* audit_store.append (53-61), then for an action other than none
\* decisions_store.set (91-92) and audit_store.append (95-107).
execute_writes(id, input, category, confidence, action, policy_id, reasoning) ==
  LET decision == [decision_id |-> id, room_id |-> input.room_id,
                   participant_id |-> input.participant_id,
                   participant_identity |-> input.participant_identity,
                   content |-> input.content, content_type |-> input.content_type,
                   classification |-> category, confidence_score |-> confidence,
                   action |-> action, status |-> "pending", policy_id |-> policy_id,
                   reasoning |-> reasoning, metadata |-> input.metadata]
      creation ==
        << [store |-> "decisions", value |-> decision],
           [store |-> "audit",
            value |-> create_audit_entry(id, "decision_created",
                                         [decision |-> decision, input |-> input])] >>
  IN IF action # "none"
     THEN creation \o
          << [store |-> "decisions", value |-> [decision EXCEPT !.status = "executed"]],
             [store |-> "audit",
              value |-> create_audit_entry(id, ActionAuditType(action),
                          [action |-> action,
                           participant_id |-> input.participant_id,
                           participant_identity |-> input.participant_identity,
                           room_id |-> input.room_id,
                           classification |-> category,
                           confidence |-> confidence])] >>
     ELSE creation

\* The two stores after a sequence of writes.  <<decisions, audit>>
RECURSIVE ApplyWrites(_, _, _)
ApplyWrites(writes, stored, log) ==
  IF writes = <<>> THEN <<stored, log>>
  ELSE LET write == Head(writes) IN
       IF write.store = "decisions"
       THEN ApplyWrites(Tail(writes),
                        StoreSet(stored, write.value.decision_id, write.value), log)
       ELSE ApplyWrites(Tail(writes), stored, StoreAppend(log, write.value))

\* ActionExecutor.execute with _execute_action: the stores after the call.
\* <<decisions, audit>>
execute(id, input, category, confidence, action, policy_id, reasoning) ==
  ApplyWrites(execute_writes(id, input, category, confidence, action, policy_id,
                             reasoning),
              decisions, audit)

\* action_node that needs a store lock which a run inside an oracle call
\* holds.
action_node_behind_oracle(r) ==
  /\ runs[r].pc = "action"
  /\ \A other \in 1..Len(runs) : runs[other].pc \notin {"classify_wait", "score_wait"}
  /\ LET state == runs[r]
         id == NewDecisionId
         out == execute(id, state.input, state.category, state.confidence[1],
                        state.action, state.policy_id,
                        <<state.classification_reasoning, state.scoring_factors>>)
     IN /\ decisions' = out[1]
        /\ audit' = out[2]
        /\ runs' = [runs EXCEPT ![r].pc = "done", ![r].decision = id]
        /\ broadcasts' = Append(broadcasts, <<"moderation:decision", id>>)
  /\ UNCHANGED <<policies, resp, calls>>

\* action_node, then the pipeline's END: moderate_content returns
\* state["decision"] and the caller broadcasts it (webhooks.py:252-255).
\* The node's except branch (pipeline.py:161-165) needs ModerationDecision(...)
\* or a store write to raise: the values come validated from the earlier
\* nodes and the stores are dicts and lists in memory, so it is not taken.
action_node(r) ==
  /\ runs[r].pc = "action"
  /\ LET state == runs[r]
         id == NewDecisionId
         out == execute(id, state.input, state.category, state.confidence[1],
                        state.action, state.policy_id,
                        <<state.classification_reasoning, state.scoring_factors>>)
     IN /\ decisions' = out[1]
        /\ audit' = out[2]
        /\ runs' = [runs EXCEPT ![r].pc = "done", ![r].decision = id]
        /\ broadcasts' = Append(broadcasts, <<"moderation:decision", id>>)
  /\ UNCHANGED <<policies, resp, calls>>

\* ---------------------------------------------------------------- decisions API
\* Decision ids the API calls name (those not created yet do not exist).
DecisionTargets == {DecisionIds[i] : i \in 1..MaxRuns}

\* review_decision that leaves a trace of a call naming an unknown decision.
review_decision_recording_missing(decision_id, approved) ==
  /\ Call("decision")
  /\ UNCHANGED <<policies, runs>>
  /\ IF ~StoreHas(decisions, decision_id)
     THEN /\ resp' = Response("review_decision", decision_id, "NotFound")
          /\ audit' = StoreAppend(audit,
                        AuditLogEntry(decision_id, "decision_reviewed", "admin",
                                      [approved |-> approved]))
          /\ UNCHANGED <<decisions, broadcasts>>
     ELSE LET decision == StoreGet(decisions, decision_id)
              written == [decision EXCEPT !.status = "reviewed"]
              entry == AuditLogEntry(decision_id, "decision_reviewed", "admin",
                         [approved |-> approved,
                          decision_classification |-> decision.classification,
                          decision_action |-> decision.action])
          IN /\ decisions' = StoreSet(decisions, decision_id, written)
             /\ audit' = StoreAppend(audit, entry)
             /\ broadcasts' = broadcasts \o << <<"audit:entry", entry>>,
                                               <<"moderation:decision", decision_id>> >>
             /\ resp' = Response("review_decision", decision_id, "success")

\* review_decision that turns away a decision already reviewed or overturned.
review_decision_guarded(decision_id, approved) ==
  /\ Call("decision")
  /\ UNCHANGED <<policies, runs>>
  /\ IF ~StoreHas(decisions, decision_id)
     THEN /\ resp' = Response("review_decision", decision_id, "NotFound")
          /\ UNCHANGED <<decisions, audit, broadcasts>>
     ELSE LET decision == StoreGet(decisions, decision_id) IN
          IF decision.status \in {"reviewed", "overturned"}
          THEN /\ resp' = Response("review_decision", decision_id, "AlreadyClosed")
               /\ UNCHANGED <<decisions, audit, broadcasts>>
          ELSE LET written == [decision EXCEPT !.status = "reviewed"]
                   entry == AuditLogEntry(decision_id, "decision_reviewed", "admin",
                              [approved |-> approved,
                               decision_classification |-> decision.classification,
                               decision_action |-> decision.action])
               IN /\ decisions' = StoreSet(decisions, decision_id, written)
                  /\ audit' = StoreAppend(audit, entry)
                  /\ broadcasts' = broadcasts \o << <<"audit:entry", entry>>,
                                                    <<"moderation:decision", decision_id>> >>
                  /\ resp' = Response("review_decision", decision_id, "success")

\* review_decision that, when the reviewer rejects the decision, also clears
\* its action.
review_decision_clearing(decision_id, approved) ==
  /\ Call("decision")
  /\ UNCHANGED <<policies, runs>>
  /\ IF ~StoreHas(decisions, decision_id)
     THEN /\ resp' = Response("review_decision", decision_id, "NotFound")
          /\ UNCHANGED <<decisions, audit, broadcasts>>
     ELSE LET decision == StoreGet(decisions, decision_id)
              written == [decision EXCEPT !.status = "reviewed",
                                          !.action = IF approved THEN @ ELSE "none"]
              entry == AuditLogEntry(decision_id, "decision_reviewed", "admin",
                         [approved |-> approved,
                          decision_classification |-> decision.classification,
                          decision_action |-> decision.action])
          IN /\ decisions' = StoreSet(decisions, decision_id, written)
             /\ audit' = StoreAppend(audit, entry)
             /\ broadcasts' = broadcasts \o << <<"audit:entry", entry>>,
                                               <<"moderation:decision", decision_id>> >>
             /\ resp' = Response("review_decision", decision_id, "success")

\* POST /decisions/{decision_id}/review
review_decision(decision_id, approved) ==
  /\ Call("decision")
  /\ UNCHANGED <<policies, runs>>
  /\ IF ~StoreHas(decisions, decision_id)
     THEN /\ resp' = Response("review_decision", decision_id, "NotFound")
          /\ UNCHANGED <<decisions, audit, broadcasts>>
     ELSE LET decision == StoreGet(decisions, decision_id)
              written == [decision EXCEPT !.status = "reviewed"]
              entry == AuditLogEntry(decision_id, "decision_reviewed", "admin",
                         [approved |-> approved,
                          decision_classification |-> decision.classification,
                          decision_action |-> decision.action])
          IN /\ decisions' = StoreSet(decisions, decision_id, written)
             /\ audit' = StoreAppend(audit, entry)
             /\ broadcasts' = broadcasts \o << <<"audit:entry", entry>>,
                                               <<"moderation:decision", decision_id>> >>
             /\ resp' = Response("review_decision", decision_id, "success")

\* overturn_decision without the "already overturned" test.
overturn_decision_unguarded(decision_id) ==
  /\ Call("decision")
  /\ UNCHANGED <<policies, runs>>
  /\ IF ~StoreHas(decisions, decision_id)
     THEN /\ resp' = Response("overturn_decision", decision_id, "NotFound")
          /\ UNCHANGED <<decisions, audit, broadcasts>>
     ELSE LET decision == StoreGet(decisions, decision_id)
              written == [decision EXCEPT !.status = "overturned"]
              entry == AuditLogEntry(decision_id, "decision_overturned", "admin",
                         [original_action |-> decision.action,
                          original_classification |-> decision.classification,
                          original_confidence |-> decision.confidence_score])
          IN /\ decisions' = StoreSet(decisions, decision_id, written)
             /\ audit' = StoreAppend(audit, entry)
             /\ broadcasts' = broadcasts \o << <<"audit:entry", entry>>,
                                               <<"moderation:decision", decision_id>> >>
             /\ resp' = Response("overturn_decision", decision_id, "success")

\* overturn_decision that turns away a decision a reviewer has closed.
overturn_decision_open_only(decision_id) ==
  /\ Call("decision")
  /\ UNCHANGED <<policies, runs>>
  /\ IF ~StoreHas(decisions, decision_id)
     THEN /\ resp' = Response("overturn_decision", decision_id, "NotFound")
          /\ UNCHANGED <<decisions, audit, broadcasts>>
     ELSE LET decision == StoreGet(decisions, decision_id) IN
          IF decision.status \in {"overturned", "reviewed"}
          THEN /\ resp' = Response("overturn_decision", decision_id, "AlreadyOverturned")
               /\ UNCHANGED <<decisions, audit, broadcasts>>
          ELSE LET written == [decision EXCEPT !.status = "overturned"]
                   entry == AuditLogEntry(decision_id, "decision_overturned", "admin",
                              [original_action |-> decision.action,
                               original_classification |-> decision.classification,
                               original_confidence |-> decision.confidence_score])
               IN /\ decisions' = StoreSet(decisions, decision_id, written)
                  /\ audit' = StoreAppend(audit, entry)
                  /\ broadcasts' = broadcasts \o << <<"audit:entry", entry>>,
                                                    <<"moderation:decision", decision_id>> >>
                  /\ resp' = Response("overturn_decision", decision_id, "success")

\* POST /decisions/{decision_id}/overturn
overturn_decision(decision_id) ==
  /\ Call("decision")
  /\ UNCHANGED <<policies, runs>>
  /\ IF ~StoreHas(decisions, decision_id)
     THEN /\ resp' = Response("overturn_decision", decision_id, "NotFound")
          /\ UNCHANGED <<decisions, audit, broadcasts>>
     ELSE LET decision == StoreGet(decisions, decision_id) IN
          IF decision.status = "overturned"
          THEN /\ resp' = Response("overturn_decision", decision_id, "AlreadyOverturned")
               /\ UNCHANGED <<decisions, audit, broadcasts>>
          ELSE LET written == [decision EXCEPT !.status = "overturned"]
                   entry == AuditLogEntry(decision_id, "decision_overturned", "admin",
                              [original_action |-> decision.action,
                               original_classification |-> decision.classification,
                               original_confidence |-> decision.confidence_score])
               IN /\ decisions' = StoreSet(decisions, decision_id, written)
                  /\ audit' = StoreAppend(audit, entry)
                  /\ broadcasts' = broadcasts \o << <<"audit:entry", entry>>,
                                                    <<"moderation:decision", decision_id>> >>
                  /\ resp' = Response("overturn_decision", decision_id, "success")

\* ---------------------------------------------------------------- system
\* The application after startup (main.py lifespan): seeded registry, empty
\* ledgers, no content event yet.
Init ==
  /\ policies = DefaultPolicies
  /\ decisions = <<>>
  /\ audit = <<>>
  /\ runs = <<>>
  /\ broadcasts = <<>>
  /\ resp = Response(None, None, None)
  /\ calls = [policy |-> 0, decision |-> 0, content |-> 0]

Next ==
  \/ \E id \in PolicyTargets, update \in PolicyUpdate : update_policy(id, update)
  \/ \E id \in PolicyTargets : toggle_policy(id)
  \/ \E input \in Inputs : moderate_content(input)
  \/ \E r \in 1..Len(runs), obtained \in ClassifierObtained, result \in ClassifierResults :
       classify_node(r, obtained, result)
  \/ \E r \in 1..Len(runs), result \in ScorerResults : score_node(r, result)
  \/ \E r \in 1..Len(runs) : decide_node(r)
  \/ \E r \in 1..Len(runs) : action_node(r)
  \/ \E id \in DecisionTargets, approved \in BOOLEAN : review_decision(id, approved)
  \/ \E id \in DecisionTargets : overturn_decision(id)

Spec == Init /\ [][Next]_vars

\* ---------------------------------------------------------------- a failing registry
\* decide_node without its try: the lookup's exception leaves the pipeline.
decide_node_lookup_uncaught(r) ==
  /\ runs[r].pc = "decide"
  /\ runs[r].category # "none"
  /\ runs' = [runs EXCEPT ![r].pc = "raised", ![r].error = "policy lookup failed"]
  /\ UNCHANGED <<policies, decisions, audit, broadcasts, resp, calls>>

\* The policy registry of this build is a dict in memory and its lookup
\* (storage.py:20-22) cannot fail, so Spec has no such step.  Here the lookup
\* is made to fail, as it would behind a store that can: decider.decide
\* raises inside decide_node's try and the except branch runs
\* (pipeline.py:118-124).  With category none decide returns before the
\* lookup (decider.py:25-26).
decide_node_lookup_failed(r) ==
  /\ runs[r].pc = "decide"
  /\ runs[r].category # "none"
  /\ runs' = [runs EXCEPT ![r].pc = "action", ![r].action = "none",
                          ![r].policy_id = None, ![r].error = "policy lookup failed"]
  /\ UNCHANGED <<policies, decisions, audit, broadcasts, resp, calls>>

NextLookupFault ==
  \/ Next
  \/ \E r \in 1..Len(runs) : decide_node_lookup_failed(r)

SpecLookupFault == Init /\ [][NextLookupFault]_vars

\* ---------------------------------------------------------------- failing ledgers
\* The error a run ends with when the k-th write of execute raised.
WriteErrors == <<"write 1 failed", "write 2 failed", "write 3 failed", "write 4 failed">>

\* action_node undoing the writes of an execute call that failed.
action_node_write_rolled_back(r, k) ==
  /\ runs[r].pc = "action"
  /\ k \in 1..(IF runs[r].action = "none" THEN 2 ELSE 4)
  /\ runs' = [runs EXCEPT ![r].pc = "done", ![r].error = WriteErrors[k]]
  /\ UNCHANGED <<policies, decisions, audit, broadcasts, resp, calls>>

\* The ledgers of this build are a dict and a list in memory whose writes
\* cannot fail, so Spec has no such step.  Here the k-th write of execute is
\* made to raise, as it would behind a store that can: the writes before it
\* have been made, the exception is caught by action_node's except branch
\* (pipeline.py:161-165), which sets error and leaves decision None, and
\* moderate_content returns None, so the caller broadcasts nothing
\* (webhooks.py:254).  The status assignment of _execute_action
\* (actions.py:91) is made on the object the first set stored, before the
\* second set is attempted: when that set is the one that fails, the stored
\* decision already reads executed.
action_node_write_failed(r, k) ==
  /\ runs[r].pc = "action"
  /\ LET state == runs[r]
         id == NewDecisionId
         writes == execute_writes(id, state.input, state.category, state.confidence[1],
                                  state.action, state.policy_id,
                                  <<state.classification_reasoning, state.scoring_factors>>)
     IN /\ k \in 1..Len(writes)
        /\ LET made == ApplyWrites(SubSeq(writes, 1, k - 1), decisions, audit)
           IN /\ decisions' = IF k = 3 THEN StoreSet(made[1], id, writes[3].value)
                              ELSE made[1]
              /\ audit' = made[2]
  /\ runs' = [runs EXCEPT ![r].pc = "done", ![r].error = WriteErrors[k]]
  /\ UNCHANGED <<policies, broadcasts, resp, calls>>

\* The pipeline and the decision API, with the failing write; the policy API
\* is left to Spec (the seeded registry decides all four actions).
NextWriteFault ==
  \/ \E input \in Inputs : moderate_content(input)
  \/ \E r \in 1..Len(runs), obtained \in ClassifierObtained, result \in ClassifierResults :
       classify_node(r, obtained, result)
  \/ \E r \in 1..Len(runs), result \in ScorerResults : score_node(r, result)
  \/ \E r \in 1..Len(runs) : decide_node(r)
  \/ \E r \in 1..Len(runs) : action_node(r)
  \/ \E r \in 1..Len(runs), k \in 1..4 : action_node_write_failed(r, k)
  \/ \E id \in DecisionTargets, approved \in BOOLEAN : review_decision(id, approved)
  \/ \E id \in DecisionTargets : overturn_decision(id)

SpecWriteFault == Init /\ [][NextWriteFault]_vars

\* ---------------------------------------------------------------- a run that waits
\* A pipeline run inside an oracle call that never returns: it has obtained
\* its classifier (and, in the score node, its scorer) and is suspended in
\* chain.ainvoke (classifier.py:60, scorer.py:73).  No node of it can run.
WaitingStages == {"classify_wait", "score_wait"}

WaitingRuns ==
  {[InitialState(input) EXCEPT !.pc = "classify_wait"] : input \in Inputs}
  \cup {[InitialState(input) EXCEPT !.pc = "score_wait", !.category = "spam",
                                    !.classification_reasoning = "llm reasoning"] :
          input \in Inputs}

\* The application with one content event whose run waits for its oracle.
InitLive ==
  /\ policies = DefaultPolicies
  /\ decisions = <<>>
  /\ audit = <<>>
  /\ runs \in {<<waiting>> : waiting \in WaitingRuns}
  /\ broadcasts = <<>>
  /\ resp = Response(None, None, None)
  /\ calls = [policy |-> 0, decision |-> 0, content |-> 1]

\* The next node of run r runs.
RunStep(r) ==
  /\ r \in 1..Len(runs)
  /\ \/ \E obtained \in ClassifierObtained, result \in ClassifierResults :
          classify_node(r, obtained, result)
     \/ \E result \in ScorerResults : score_node(r, result)
     \/ decide_node(r)
     \/ action_node(r)

\* The event loop runs every task that is ready, and the oracle calls of the
\* runs that are not waiting return: a run whose next node can run does run it.
SpecLive == InitLive /\ [][Next]_vars /\ \A r \in 1..MaxRuns : WF_vars(RunStep(r))

\* ---------------------------------------------------------------- decide alone
\* The Decision Engine as a function of (registry, category, confidence): the
\* registry is any of DecideRegistries (a policy may be missing, disabled,
\* mis-ordered, or share its category with an earlier one), two pipeline
\* states stand at the decide node with any category and confidence, and the
\* only steps are the two decide_node calls.
DecideThresholds == {0, 50, 90}

DecideConfidences == {0, 50, 70, 90}

DecideCategories == {"spam", "harassment", "none"}

\* The earlier slot of the store's order: absent, or a policy with the seeded
\* thresholds whose category is harassment or (a duplicate) spam.
FirstSlotPolicies ==
  {Policy("policy-harassment", "Harassment", c, 50, 70, 85, e) :
     c \in {"harassment", "spam"}, e \in BOOLEAN}

\* The later slot: absent, or a spam policy with any thresholds.
SecondSlotPolicies ==
  {Policy("policy-spam", "Spam", "spam", w, m, f, e) :
     w \in DecideThresholds, m \in DecideThresholds, f \in DecideThresholds,
     e \in BOOLEAN}

DecideRegistries ==
  {<<>>}
  \cup {[id \in {"policy-harassment"} |-> p] : p \in FirstSlotPolicies}
  \cup {[id \in {"policy-spam"} |-> q] : q \in SecondSlotPolicies}
  \cup {[id \in {"policy-harassment", "policy-spam"} |->
           IF id = "policy-harassment" THEN p ELSE q] :
          p \in FirstSlotPolicies, q \in SecondSlotPolicies}

\* A pipeline state that has passed classify and score.
StateAtDecide(category, confidence) ==
  [InitialState(CHOOSE input \in Inputs : TRUE) EXCEPT
     !.pc = "decide", !.category = category, !.confidence = Some(confidence),
     !.classification_reasoning = "llm reasoning", !.scoring_factors = "llm factors"]

InitDecide ==
  /\ policies \in DecideRegistries
  /\ \E c1 \in DecideCategories, c2 \in DecideCategories,
        k1 \in DecideConfidences, k2 \in DecideConfidences :
       runs = <<StateAtDecide(c1, k1), StateAtDecide(c2, k2)>>
  /\ decisions = <<>>
  /\ audit = <<>>
  /\ broadcasts = <<>>
  /\ resp = Response(None, None, None)
  /\ calls = [policy |-> 0, decision |-> 0, content |-> 2]

NextDecide == \E r \in 1..Len(runs) : decide_node(r)

SpecDecide == InitDecide /\ [][NextDecide]_vars

\* ================================================================ properties
\* Positions of the audit entries of one decision with a type among `types`.
EntriesOf(id, types) ==
  {i \in 1..Len(audit) : audit[i].decision_id = id /\ audit[i].action_type \in types}

EnforcementTypes == {"participant_warned", "participant_muted", "content_flagged"}

PassedDecide(r) == runs[r].pc \in {"action", "done"}

\* The policies decide can match for a category: those of that category with
\* no policy of the category earlier in the store's order.
PositionOf(id) == CHOOSE i \in 1..Len(PolicyOrder) : PolicyOrder[i] = id

FirstMatching(category) ==
  {id \in DOMAIN policies :
     /\ policies[id].category = category
     /\ \A other \in DOMAIN policies :
          policies[other].category = category => PositionOf(id) <= PositionOf(other)}

\* A step that is a new call of the policy API / of the decision API.
PolicyCallStep == calls'.policy = calls.policy + 1

DecisionCallStep == calls'.decision = calls.decision + 1

\* C1: an update_policy call whose merged record breaks warn <= mute <= flag
\* fails (so a call that succeeds leaves an ordered record), and the failed call
\* leaves every field of every stored policy and the audit ledger as they were.
C1_RejectedUpdateIsAtomic ==
  [][(PolicyCallStep /\ resp'.op = "update_policy") =>
       /\ resp'.result = "success" => ThresholdsOrdered(policies'[resp'.id])
       /\ resp'.result = "InvalidThresholds" =>
            (policies' = policies /\ audit' = audit)]_vars

\* C2: every policy in the registry has
\* 0 <= warn_threshold <= mute_threshold <= flag_threshold <= 1.
C2_ThresholdsOrderedAlways ==
  \A id \in DOMAIN policies :
    /\ 0 <= policies[id].warn_threshold
    /\ ThresholdsOrdered(policies[id])
    /\ policies[id].flag_threshold <= 100

\* C3: for every pipeline run that has completed the action node, the audit
\* ledger holds exactly one decision_created entry with the run's decision id,
\* and an enforcement entry with that id exists iff the decision's action is
\* not none.
C3_AuditCompleteness ==
  \A r \in 1..Len(runs) :
    runs[r].pc = "done" =>
      LET id == runs[r].decision IN
      /\ id \in DOMAIN decisions
      /\ Cardinality(EntriesOf(id, {"decision_created"})) = 1
      /\ (EntriesOf(id, EnforcementTypes) # {}) <=> (decisions[id].action # "none")

C3_Witness ==
  \E r1, r2 \in 1..Len(runs) :
    /\ runs[r1].pc = "done" /\ runs[r2].pc = "done"
    /\ decisions[runs[r1].decision].action = "mute"
    /\ EntriesOf(runs[r1].decision, {"participant_muted"}) # {}
    /\ decisions[runs[r2].decision].action = "none"
    /\ EntriesOf(runs[r2].decision, {"decision_created"}) # {}

\* C4: an overturn call on an existing decision that is not overturned
\* succeeds and appends one decision_overturned entry; the overturn call that
\* directly follows a successful one on the same decision fails with
\* AlreadyOverturned and changes neither the decision ledger nor the audit
\* ledger, so the two calls leave exactly one decision_overturned entry (the
\* only one there is, for a decision that was never reviewed).
C4_OverturnTwice ==
  [][\A id \in DecisionTargets :
       (DecisionCallStep /\ resp'.op = "overturn_decision" /\ resp'.id = id
          /\ id \in DOMAIN decisions) =>
         /\ decisions[id].status # "overturned" =>
              /\ resp'.result = "success"
              /\ decisions' = [decisions EXCEPT ![id].status = "overturned"]
              /\ Len(audit') = Len(audit) + 1
              /\ SubSeq(audit', 1, Len(audit)) = audit
              /\ audit'[Len(audit')].action_type = "decision_overturned"
              /\ audit'[Len(audit')].decision_id = id
         /\ resp = Response("overturn_decision", id, "success") =>
              /\ resp'.result = "AlreadyOverturned"
              /\ decisions' = decisions
              /\ audit' = audit
              /\ (EntriesOf(id, {"decision_reviewed"}) = {} =>
                    Cardinality(EntriesOf(id, {"decision_overturned"})) = 1)]_vars

C4_Witness ==
  /\ resp = Response("overturn_decision", "dec-1", "AlreadyOverturned")
  /\ "dec-1" \in DOMAIN decisions
  /\ decisions["dec-1"].status = "overturned"
  /\ Cardinality(EntriesOf("dec-1", {"decision_overturned"})) = 1

\* The classifier responses that are failures: the chain raised, or returned
\* something other than a dict naming one of the six categories.
MalformedClassifierResults ==
  {result \in ClassifierResults :
     \/ result.kind # "dict"
     \/ result.category = Nothing
     \/ result.category[1] \notin {"spam", "SPAM", "none"}}

ClassifierFailed(r) ==
  runs[r].classification_reasoning \in
    {"Classification error", "Unexpected response format from LLM"}

\* Some node of run r can run.
RunCanStep(r) ==
  ENABLED (\/ \E obtained \in ClassifierObtained, result \in ClassifierResults :
                classify_node(r, obtained, result)
           \/ \E result \in ScorerResults : score_node(r, result)
           \/ decide_node(r)
           \/ action_node(r))

\* C5: when the Classification Oracle raises or returns a malformed response,
\* classification is none, the run is never stuck before its end, and the
\* Decision it ends with has classification none and action none.
C5_FailSafeClassification ==
  /\ \A result \in MalformedClassifierResults : classify(result)[1] = "none"
  /\ \A r \in 1..Len(runs) :
       (ClassifierFailed(r) \/ (runs[r].pc # "classify" /\ runs[r].category = "none")) =>
         /\ runs[r].category = "none"
         /\ runs[r].pc # "done" => RunCanStep(r)
         /\ runs[r].pc = "done" =>
              /\ runs[r].decision \in DOMAIN decisions
              /\ decisions[runs[r].decision].classification = "none"
              /\ decisions[runs[r].decision].action = "none"

C5_Witness ==
  \E r \in 1..Len(runs) :
    /\ runs[r].classification_reasoning = "Classification error"
    /\ runs[r].pc = "done"
    /\ decisions[runs[r].decision].classification = "none"
    /\ decisions[runs[r].decision].action = "none"

\* C6: when the Scoring Oracle fails for a category other than none, the
\* confidence is 0.0 and the action decided is none, whatever the registry.
C6_ScorerFailureMeansNoAction ==
  \A r \in 1..Len(runs) :
    (PassedDecide(r) /\ runs[r].category # "none"
       /\ runs[r].scoring_factors = "Scoring error") =>
      /\ runs[r].confidence = Some(0)
      /\ runs[r].action = "none"

\* C7: with a category other than none whose policy is found and enabled,
\* decide returns flag_for_review when confidence >= flag_threshold, else
\* mute when confidence >= mute_threshold, else warn when confidence >=
\* warn_threshold, else none.
C7_ThresholdCascade ==
  \A r \in 1..Len(runs) :
    (runs[r].pc = "action" /\ runs[r].category # "none") =>
      \A id \in FirstMatching(runs[r].category) :
        policies[id].enabled =>
          LET confidence == runs[r].confidence[1] IN
          runs[r].action =
            IF confidence >= policies[id].flag_threshold THEN "flag_for_review"
            ELSE IF confidence >= policies[id].mute_threshold THEN "mute"
            ELSE IF confidence >= policies[id].warn_threshold THEN "warn"
            ELSE "none"

\* Each action is decided at its threshold exactly (the comparisons are
\* inclusive), and none below the warn threshold.
C7_Witness ==
  \E r \in 1..Len(runs) :
    /\ runs[r].pc = "action" /\ runs[r].category = "spam"
    /\ runs[r].action = "mute"
    /\ \E id \in FirstMatching("spam") :
         /\ policies[id].enabled
         /\ runs[r].confidence[1] = policies[id].mute_threshold
         /\ runs[r].confidence[1] < policies[id].flag_threshold

\* C8: decide returns (none, None) when the category is none, when no policy
\* has the category, and when the first policy of the category is disabled,
\* whatever the confidence and whatever else the registry holds (so with
\* category none the result does not depend on the registry).
C8_NoPolicyNoAction ==
  \A r \in 1..Len(runs) :
    (/\ runs[r].pc = "action"
     /\ \/ runs[r].category = "none"
        \/ FirstMatching(runs[r].category) = {}
        \/ \E id \in FirstMatching(runs[r].category) : ~policies[id].enabled) =>
      (runs[r].action = "none" /\ runs[r].policy_id = None)

\* The first spam policy is disabled and a later, enabled spam policy would
\* flag this confidence: the result is still (none, None).
C8_Witness ==
  \E r \in 1..Len(runs) :
    /\ runs[r].pc = "action" /\ runs[r].category = "spam"
    /\ "policy-harassment" \in FirstMatching("spam")
    /\ ~policies["policy-harassment"].enabled
    /\ "policy-spam" \in DOMAIN policies
    /\ policies["policy-spam"].enabled
    /\ runs[r].confidence[1] >= policies["policy-spam"].flag_threshold
    /\ runs[r].action = "none" /\ runs[r].policy_id = None

\* C9: when decide finds an enabled policy for the category, the policy_id it
\* returns is that policy's id, whichever of the four actions it returns.
C9_PolicyIdReported ==
  \A r \in 1..Len(runs) :
    (runs[r].pc = "action" /\ runs[r].category # "none") =>
      \A id \in FirstMatching(runs[r].category) :
        policies[id].enabled => runs[r].policy_id = policies[id].policy_id

C9_Witness ==
  \E r \in 1..Len(runs) :
    /\ runs[r].pc = "action" /\ runs[r].category = "spam"
    /\ runs[r].action = "none"
    /\ runs[r].policy_id = "policy-spam"
    /\ runs[r].confidence[1] < policies["policy-spam"].warn_threshold

StageOrder ==
  {<<"classify", "score">>, <<"score", "decide">>, <<"decide", "action">>,
   <<"action", "done">>}

\* C11: every pipeline run starts at Classify and moves only from a stage to
\* the next one in the order Classify, Score, Decide, Act, Done, whatever the
\* stage's outcome; it never leaves the order (no skip, no repeat, no end
\* before Done).
C11_StagesInOrder ==
  [][/\ \A r \in 1..Len(runs) :
          runs'[r].pc # runs[r].pc => <<runs[r].pc, runs'[r].pc>> \in StageOrder
     /\ \A r \in (Len(runs) + 1)..Len(runs') : runs'[r].pc = "classify"]_vars

\* A run that has ended: the pipeline returned, or an exception left it.
Ended(r) == runs[r].pc \in {"done", "raised"}

\* C12: every pipeline run that has ended has a Decision to return to the
\* caller, stored in the decision ledger under its id, and the audit ledger
\* holds a decision_created entry for it, whatever the oracles did and
\* whatever the action is.
C12_EveryRunLeavesADecision ==
  \A r \in 1..Len(runs) :
    Ended(r) =>
      /\ runs[r].decision \in DOMAIN decisions
      /\ decisions[runs[r].decision].decision_id = runs[r].decision
      /\ EntriesOf(runs[r].decision, {"decision_created"}) # {}

\* C13: moderate_content never raises to its caller: no run ends by an
\* exception leaving the pipeline.
C13_NeverRaises ==
  \A r \in 1..Len(runs) : runs[r].pc # "raised"

\* The writes the action node of run r is about to make.
WritesOf(r) ==
  execute_writes(NewDecisionId, runs[r].input, runs[r].category, runs[r].confidence[1],
                 runs[r].action, runs[r].policy_id,
                 <<runs[r].classification_reasoning, runs[r].scoring_factors>>)

\* C14: one execute call writes, in this order, the Decision with status
\* pending, the decision_created entry, and only for an action other than
\* none the Decision with status executed and then the enforcement entry; so
\* in the audit ledger the decision_created entry of a decision comes before
\* its enforcement entry.
C14_TwoPhaseWriteOrder ==
  [][\A r \in 1..Len(runs) :
       (runs[r].pc = "action" /\ runs'[r].pc = "done") =>
         LET writes == WritesOf(r)
             id == runs'[r].decision
         IN /\ decisions' = ApplyWrites(writes, decisions, audit)[1]
            /\ audit' = ApplyWrites(writes, decisions, audit)[2]
            /\ Len(writes) = IF runs[r].action = "none" THEN 2 ELSE 4
            /\ writes[1].store = "decisions"
            /\ writes[1].value.decision_id = id /\ writes[1].value.status = "pending"
            /\ writes[2].store = "audit"
            /\ writes[2].value.decision_id = id
            /\ writes[2].value.action_type = "decision_created"
            /\ runs[r].action # "none" =>
                 /\ writes[3].store = "decisions"
                 /\ writes[3].value.decision_id = id /\ writes[3].value.status = "executed"
                 /\ writes[4].store = "audit"
                 /\ writes[4].value.decision_id = id
                 /\ writes[4].value.action_type \in EnforcementTypes
            /\ \A i \in 1..Len(audit') :
                 (audit'[i].decision_id = id /\ audit'[i].action_type \in EnforcementTypes) =>
                   \E j \in 1..(i - 1) :
                     audit'[j].decision_id = id /\ audit'[j].action_type = "decision_created"]_vars

C14_Witness ==
  \E r \in 1..Len(runs) :
    /\ runs[r].pc = "done" /\ runs[r].action = "warn"
    /\ decisions[runs[r].decision].status = "executed"
    /\ \E i \in EntriesOf(runs[r].decision, {"decision_created"}) :
         /\ audit[i].metadata.decision.status = "pending"
         /\ audit[i + 1].decision_id = runs[r].decision
         /\ audit[i + 1].action_type = "participant_warned"

\* C15: a decision's status only moves forward: executed never returns to
\* pending, reviewed and overturned never return to pending or executed, and
\* overturned is never replaced by another status.
C15_StatusForwardOnly ==
  [][\A id \in DOMAIN decisions :
       LET old == decisions[id].status
           new == decisions'[id].status
       IN /\ id \in DOMAIN decisions'
          /\ old = "executed" => new # "pending"
          /\ old \in {"reviewed", "overturned"} => new \notin {"pending", "executed"}
          /\ old = "overturned" => new = "overturned"]_vars

\* C16: once a Decision is created it stays in the ledger, and every field
\* of it other than status keeps its value through every step (review,
\* overturn, policy update, policy toggle, other pipeline runs).
C16_DecisionFieldsImmutable ==
  [][\A id \in DOMAIN decisions :
       /\ id \in DOMAIN decisions'
       /\ \A field \in DOMAIN decisions[id] \ {"status"} :
            decisions'[id][field] = decisions[id][field]]_vars

\* A flagged decision was reviewed, the policy it was decided under was then
\* changed and another run completed: it still has the action and policy_id
\* of its creation snapshot.
C16_Witness ==
  /\ DOMAIN decisions = {"dec-1", "dec-2"}
  /\ decisions["dec-1"].status = "reviewed"
  /\ decisions["dec-1"].action = "flag_for_review"
  /\ decisions["dec-1"].policy_id = "policy-spam"
  /\ ~policies["policy-spam"].enabled
  /\ \E i \in EntriesOf("dec-1", {"decision_created"}) :
       audit[i].metadata.decision = [decisions["dec-1"] EXCEPT !.status = "pending"]

\* C17: the audit ledger is append-only: in every step the ledger before the
\* step is a prefix of the ledger after it; and the decision snapshot in a
\* decision_created entry has status pending, also after the decision's
\* status has changed.
C17_AuditAppendOnly ==
  [][/\ Len(audit') >= Len(audit)
     /\ SubSeq(audit', 1, Len(audit)) = audit
     /\ \A i \in 1..Len(audit') :
          audit'[i].action_type = "decision_created" =>
            audit'[i].metadata.decision.status = "pending"]_vars

\* An executed decision was overturned; its decision_created entry is still
\* the first entry of the ledger, with the snapshot at status pending.
C17_Witness ==
  /\ Len(audit) >= 3
  /\ audit[1].action_type = "decision_created"
  /\ audit[1].decision_id = "dec-1"
  /\ audit[1].metadata.decision.status = "pending"
  /\ audit[2].action_type \in EnforcementTypes
  /\ decisions["dec-1"].status = "overturned"
  /\ audit[Len(audit)].action_type = "decision_overturned"

\* The audit entries a step has appended.
NewEntries == {audit'[i] : i \in (Len(audit) + 1)..Len(audit')}

\* C18: every step that changes a stored Decision or Policy (or stores a new
\* one) appends, in the same step, at least one audit entry for that record:
\* one with the decision's id, or a policy_updated entry naming the policy.
C18_EveryChangeAudited ==
  [][/\ \A id \in DOMAIN decisions' :
          (id \notin DOMAIN decisions \/ decisions'[id] # decisions[id]) =>
            \E entry \in NewEntries : entry.decision_id = id
     /\ \A id \in DOMAIN policies' :
          (id \notin DOMAIN policies \/ policies'[id] # policies[id]) =>
            \E entry \in NewEntries :
              /\ entry.action_type = "policy_updated"
              /\ entry.metadata.policy_id = id]_vars

\* C19: a successful update_policy appends exactly one policy_updated entry
\* when the stored value of at least one field changes, and no entry when
\* nothing changes.
C19_UpdateAuditedIffChanged ==
  [][(PolicyCallStep /\ resp'.op = "update_policy" /\ resp'.result = "success") =>
       IF policies'[resp'.id] # policies[resp'.id]
       THEN /\ Len(audit') = Len(audit) + 1
            /\ audit'[Len(audit')].action_type = "policy_updated"
       ELSE audit' = audit]_vars

\* The step appended exactly one audit entry, of the given type, by the
\* admin, for decision id.
AppendedOne(id, type) ==
  /\ Len(audit') = Len(audit) + 1
  /\ SubSeq(audit', 1, Len(audit)) = audit
  /\ audit'[Len(audit')].action_type = type
  /\ audit'[Len(audit')].actor = "admin"
  /\ audit'[Len(audit')].decision_id = id

\* C20: review of an existing decision succeeds from every status, sets the
\* status to reviewed and appends exactly one decision_reviewed entry with
\* actor admin and the decision's id; a successful overturn appends exactly
\* one decision_overturned entry with actor admin.
C20_ReviewAlwaysAccepted ==
  [][\A id \in DecisionTargets :
       (DecisionCallStep /\ resp'.id = id /\ id \in DOMAIN decisions) =>
         /\ resp'.op = "review_decision" =>
              /\ resp'.result = "success"
              /\ decisions' = [decisions EXCEPT ![id].status = "reviewed"]
              /\ AppendedOne(id, "decision_reviewed")
         /\ (resp'.op = "overturn_decision" /\ resp'.result = "success") =>
              /\ decisions' = [decisions EXCEPT ![id].status = "overturned"]
              /\ AppendedOne(id, "decision_overturned")]_vars

\* An executed decision was overturned and then reviewed: the review was
\* accepted, and each call left one entry.
C20_Witness ==
  /\ resp = Response("review_decision", "dec-1", "success")
  /\ decisions["dec-1"].status = "reviewed"
  /\ Len(audit) = 4
  /\ audit[2].action_type \in EnforcementTypes
  /\ audit[3].action_type = "decision_overturned" /\ audit[3].actor = "admin"
  /\ audit[4].action_type = "decision_reviewed" /\ audit[4].actor = "admin"
  /\ audit[4].decision_id = "dec-1"

\* The id a policy or decision API call names is in the store the call reads.
Known(op, id) ==
  IF op \in {"update_policy", "toggle_policy"} THEN id \in DOMAIN policies
  ELSE id \in DOMAIN decisions

\* C21: review, overturn, update_policy and toggle_policy called with an id
\* that is not in the store fail with NotFound (and only then), and leave the
\* decision ledger, the policy registry and the audit ledger unchanged.
C21_UnknownIdNotFound ==
  [][(PolicyCallStep \/ DecisionCallStep) =>
       /\ (resp'.result = "NotFound") <=> ~Known(resp'.op, resp'.id)
       /\ resp'.result = "NotFound" =>
            (decisions' = decisions /\ policies' = policies /\ audit' = audit)]_vars

\* All four operations can be called with an unknown id; here an overturn
\* names a decision that does not exist while another one does.
C21_Witness ==
  /\ resp = Response("overturn_decision", "dec-2", "NotFound")
  /\ DOMAIN decisions = {"dec-1"}
  /\ Len(audit) >= 1

\* C22: a pipeline run that completes with action none stores its Decision
\* with status pending, and that Decision stays pending through every step
\* that is not a review or overturn call naming it; a run that completes with
\* another action stores its Decision with status executed.
C22_StatusAfterAct ==
  [][/\ \A r \in 1..Len(runs) :
          (runs[r].pc = "action" /\ runs'[r].pc = "done") =>
            decisions'[runs'[r].decision].status =
              IF runs[r].action = "none" THEN "pending" ELSE "executed"
     /\ \A id \in DOMAIN decisions :
          (decisions[id].action = "none" /\ decisions[id].status = "pending"
             /\ decisions'[id].status # "pending") =>
            /\ DecisionCallStep
            /\ resp'.id = id
            /\ resp'.op \in {"review_decision", "overturn_decision"}]_vars

\* A no-action decision is still pending after a later run completed with an
\* executed action and that other decision was reviewed.
C22_Witness ==
  /\ DOMAIN decisions = {"dec-1", "dec-2"}
  /\ decisions["dec-1"].action = "none" /\ decisions["dec-1"].status = "pending"
  /\ decisions["dec-2"].action = "mute" /\ decisions["dec-2"].status = "reviewed"
  /\ EntriesOf("dec-2", {"participant_muted"}) # {}

\* What a review or overturn call writes: the status, and the entry's type.
StatusOf(op) == IF op = "review_decision" THEN "reviewed" ELSE "overturned"

EntryTypeOf(op) ==
  IF op = "review_decision" THEN "decision_reviewed" ELSE "decision_overturned"

\* C23: a review and an overturn of the same decision, not overturned before,
\* that are in flight together.  A handler has no suspension point between
\* its get and its append, so the two calls' writes happen one call after the
\* other, in either order: the call whose writes come second also succeeds
\* (no error for the race), each call has appended its own entry, and the
\* decision's status is the one the second call wrote.
C23_ReviewOverturnRace ==
  [][\A id \in DecisionTargets :
       (/\ resp.id = id /\ resp.result = "success"
        /\ resp.op \in {"review_decision", "overturn_decision"}
        /\ DecisionCallStep /\ resp'.id = id
        /\ resp'.op \in {"review_decision", "overturn_decision"} \ {resp.op}
        /\ decisions[id].status = StatusOf(resp.op)) =>
         /\ resp'.result = "success"
         /\ decisions'[id].status = StatusOf(resp'.op)
         /\ EntriesOf(id, {EntryTypeOf(resp.op)}) # {}
         /\ Len(audit') = Len(audit) + 1
         /\ audit'[Len(audit')].decision_id = id
         /\ audit'[Len(audit')].action_type = EntryTypeOf(resp'.op)]_vars

\* The review's writes came first and the overturn's second: both succeeded,
\* both entries are in the ledger, and the status is overturned.
C23_Witness ==
  /\ resp = Response("overturn_decision", "dec-1", "success")
  /\ decisions["dec-1"].status = "overturned"
  /\ \E i \in EntriesOf("dec-1", {"decision_reviewed"}) :
       /\ i + 1 = Len(audit)
       /\ audit[i + 1].decision_id = "dec-1"
       /\ audit[i + 1].action_type = "decision_overturned"

\* C24: while one pipeline run waits in an oracle call that never returns,
\* every other run (whose oracle calls return, with success or failure)
\* eventually reaches Done.
C24_OthersReachDone ==
  \A r \in 1..MaxRuns :
    (r <= Len(runs) /\ runs[r].pc \notin WaitingStages)
      ~> (r <= Len(runs) /\ runs[r].pc = "done")

\* The second run is done, with its decision stored, while the first still
\* waits for its oracle.
C24_Witness ==
  /\ Len(runs) = 2
  /\ runs[1].pc \in WaitingStages
  /\ runs[2].pc = "done"
  /\ runs[2].decision \in DOMAIN decisions

\* C25: for a pipeline run with an action other than none, the second audit
\* entry (the one after the decision_created entry) has actor ai and
\* action_type participant_warned for warn, participant_muted for mute and
\* content_flagged for flag_for_review.
C25_EnforcementEntryType ==
  \A r \in 1..Len(runs) :
    (runs[r].pc = "done" /\ runs[r].action # "none") =>
      \A i \in EntriesOf(runs[r].decision, {"decision_created"}) :
        /\ i + 1 <= Len(audit)
        /\ audit[i + 1].decision_id = runs[r].decision
        /\ audit[i + 1].actor = "ai"
        /\ audit[i + 1].metadata.action = runs[r].action
        /\ runs[r].action = "warn" => audit[i + 1].action_type = "participant_warned"
        /\ runs[r].action = "mute" => audit[i + 1].action_type = "participant_muted"
        /\ runs[r].action = "flag_for_review" => audit[i + 1].action_type = "content_flagged"

C25_Witness ==
  /\ Len(runs) = 2
  /\ runs[1].pc = "done" /\ runs[2].pc = "done"
  /\ runs[1].action = "warn" /\ runs[2].action = "flag_for_review"
  /\ EntriesOf(runs[1].decision, {"participant_warned"}) # {}
  /\ EntriesOf(runs[2].decision, {"content_flagged"}) # {}

\* C26: toggle_policy on an existing policy always succeeds, sets enabled to
\* the negation of the stored value, leaves every other field of the policy
\* (thresholds, name, description, category) and every other policy
\* unchanged, and appends exactly one policy_updated entry with actor admin
\* and no decision id.
C26_ToggleFlipsEnabledOnly ==
  [][\A id \in PolicyTargets :
       (PolicyCallStep /\ resp'.op = "toggle_policy" /\ resp'.id = id
          /\ id \in DOMAIN policies) =>
         /\ resp'.result = "success"
         /\ policies' = [policies EXCEPT ![id].enabled = ~policies[id].enabled]
         /\ Len(audit') = Len(audit) + 1
         /\ SubSeq(audit', 1, Len(audit)) = audit
         /\ audit'[Len(audit')].action_type = "policy_updated"
         /\ audit'[Len(audit')].actor = "admin"
         /\ audit'[Len(audit')].decision_id = None
         /\ audit'[Len(audit')].metadata.policy_id = id]_vars

\* A toggle succeeded on a policy whose thresholds a rejected update had left
\* out of order: enabled is flipped and the thresholds are as they were.
C26_Witness ==
  /\ resp = Response("toggle_policy", "policy-spam", "success")
  /\ ~policies["policy-spam"].enabled
  /\ policies["policy-spam"].mute_threshold = 50
  /\ policies["policy-spam"].warn_threshold = 60
  /\ Len(audit) >= 1
  /\ audit[Len(audit)].action_type = "policy_updated"
  /\ audit[Len(audit)].metadata.policy_id = "policy-spam"

\* C27: the registry always holds exactly the seeded policy ids, each policy
\* keeps its key and its category, and there is exactly one policy per
\* category.
C27_RegistryIdsFixed ==
  /\ DOMAIN policies = DOMAIN DefaultPolicies
  /\ \A id \in DOMAIN policies :
       /\ policies[id].policy_id = id
       /\ policies[id].category = DefaultPolicies[id].category
  /\ \A category \in PolicyCategory :
       Cardinality({id \in DOMAIN policies : policies[id].category = category}) = 1

\* The registry after an accepted update and a toggle.
C27_Witness ==
  /\ calls.policy = MaxPolicyCalls
  /\ policies["policy-spam"].warn_threshold = 0
  /\ ~policies["policy-spam"].enabled
  /\ Len(audit) = 2

\* C28: when Classify produced category none, Score yields confidence 0.0
\* with the rationale of the short-circuit, whatever the Scoring Oracle would
\* have answered: its answer is not used, the oracle is not called.
C28_NoScoringCallForNone ==
  /\ \A result \in ScorerResults : score("none", result) = <<0, "No violation detected">>
  /\ \A r \in 1..Len(runs) :
       (runs[r].pc \in {"decide", "action", "done"} /\ runs[r].category = "none") =>
         /\ runs[r].confidence = Some(0)
         /\ runs[r].scoring_factors = "No violation detected"

\* The classifier answered "none" (no failure) and the run has passed Score.
C28_Witness ==
  \E r \in 1..Len(runs) :
    /\ runs[r].pc = "decide"
    /\ runs[r].category = "none"
    /\ runs[r].classification_reasoning = "llm reasoning"
    /\ runs[r].confidence = Some(0)

\* C29: when the Classification Oracle fails during a run (the chain raises
\* or returns something that is not a dict), the run's error field is set
\* from the Classify stage on, and the run still goes on through Score,
\* Decide and Act.
C29_ClassifierFailureSetsError ==
  \A r \in 1..Len(runs) :
    ClassifierFailed(r) =>
      /\ runs[r].error # None
      /\ runs[r].pc # "done" => RunCanStep(r)

\* C30: when the policy registry lookup fails in the Decide stage, the stage
\* records action none and policy_id null, the run goes on to Act, and Act
\* persists a Decision (action none, no policy) with its decision_created
\* entry.
C30_LookupFailureMeansNoAction ==
  \A r \in 1..Len(runs) :
    runs[r].error = "policy lookup failed" =>
      /\ runs[r].action = "none" /\ runs[r].policy_id = None
      /\ runs[r].pc # "done" => RunCanStep(r)
      /\ runs[r].pc = "done" =>
           /\ runs[r].decision \in DOMAIN decisions
           /\ decisions[runs[r].decision].action = "none"
           /\ decisions[runs[r].decision].policy_id = None
           /\ Cardinality(EntriesOf(runs[r].decision, {"decision_created"})) = 1

\* The content was classified spam with a confidence that the enabled spam
\* policy would have flagged; the lookup failed and the run ended with a
\* stored no-action Decision.
C30_Witness ==
  \E r \in 1..Len(runs) :
    /\ runs[r].error = "policy lookup failed"
    /\ runs[r].pc = "done"
    /\ runs[r].category = "spam" /\ runs[r].confidence = Some(100)
    /\ policies["policy-spam"].enabled
    /\ decisions[runs[r].decision].action = "none"
    /\ EntriesOf(runs[r].decision, {"decision_created"}) # {}

\* C31: when a ledger write raises inside the Act stage, the run ends with
\* its decision field absent (moderate_content returns null), whichever of
\* the up to four writes it is, and the writes made before it stay: the
\* audit ledger has gained the entries of those writes, the decision is in
\* the decision ledger unless the first write failed, and nothing else in
\* the ledgers has changed.
C31_FailedWriteLeavesEarlierWrites ==
  [][\A r \in 1..Len(runs), k \in 1..4 :
       (runs[r].pc = "action" /\ runs'[r].error = WriteErrors[k]) =>
         LET made == ApplyWrites(SubSeq(WritesOf(r), 1, k - 1), decisions, audit)
         IN /\ k <= Len(WritesOf(r))
            /\ runs'[r].pc = "done" /\ runs'[r].decision = None
            /\ broadcasts' = broadcasts
            /\ audit' = made[2]
            /\ DOMAIN decisions' = DOMAIN made[1]
            /\ \A id \in DOMAIN decisions : decisions'[id] = decisions[id]]_vars

\* The append of the enforcement entry failed: the run ended without a
\* decision to return, and the decision and its decision_created entry are in
\* the ledgers.
C31_Witness ==
  \E r \in 1..Len(runs) :
    /\ runs[r].error = WriteErrors[4]
    /\ runs[r].pc = "done" /\ runs[r].decision = None
    /\ runs[r].action = "mute"
    /\ "dec-1" \in DOMAIN decisions
    /\ decisions["dec-1"].status = "executed"
    /\ EntriesOf("dec-1", {"decision_created"}) # {}
    /\ EntriesOf("dec-1", EnforcementTypes) = {}

\* C32: two update_policy requests on the same policy that are in flight
\* together.  The handler has no suspension point between its get and its
\* set, so the two requests' reads and writes happen one request after the
\* other, in either order; when the second of them has ended, the stored
\* policy satisfies warn_threshold <= mute_threshold <= flag_threshold.
C32_TwoUpdatesLeaveOrdered ==
  [][\A id \in DOMAIN policies :
       (/\ resp.op = "update_policy" /\ resp.id = id
        /\ PolicyCallStep /\ resp'.op = "update_policy" /\ resp'.id = id) =>
         ThresholdsOrdered(policies'[id])]_vars

\* The positions, in a ledger, of the decision_overturned entries of a decision.
OverturnedEntries(log, id) ==
  {i \in 1..Len(log) :
     log[i].decision_id = id /\ log[i].action_type = "decision_overturned"}

\* C33: two overturn requests on the same decision, not overturned before,
\* that are in flight together.  The handler has no suspension point between
\* its get and its append, so one request's handler runs wholly before the
\* other's: the first finds the decision not overturned, succeeds and appends
\* one decision_overturned entry, and the other finds it overturned, fails
\* with AlreadyOverturned and appends nothing, so exactly one request
\* succeeds and the two leave exactly one entry between them.
C33_ConcurrentOverturns ==
  [][\A id \in DecisionTargets :
       (DecisionCallStep /\ resp'.op = "overturn_decision" /\ resp'.id = id
          /\ id \in DOMAIN decisions) =>
         LET before == Cardinality(OverturnedEntries(audit, id))
             after == Cardinality(OverturnedEntries(audit', id))
         IN /\ resp'.result \in {"success", "AlreadyOverturned"}
            /\ decisions'[id].status = "overturned"
            /\ resp'.result = "success" <=> decisions[id].status # "overturned"
            /\ resp'.result = "success" <=> after = before + 1
            /\ resp'.result = "AlreadyOverturned" <=> after = before
            /\ resp = Response("overturn_decision", id, "success") =>
                 /\ resp'.result = "AlreadyOverturned"
                 /\ before >= 1
                 /\ audit' = audit]_vars

\* Both requests have ended, the second with AlreadyOverturned, and the
\* ledger holds the one entry of the first.
C33_Witness ==
  /\ calls.decision = 2
  /\ resp = Response("overturn_decision", "dec-1", "AlreadyOverturned")
  /\ Cardinality(OverturnedEntries(audit, "dec-1")) = 1
  /\ EntriesOf("dec-1", {"decision_reviewed"}) = {}

\* C34: every entry in the audit ledger (decision_created, enforcement,
\* decision_reviewed, decision_overturned, policy_updated) has been broadcast
\* as an audit:entry event by the operation that appended it, and that
\* operation has ended normally whatever became of the sends.
C34_EveryEntryBroadcast ==
  \A i \in 1..Len(audit) :
    \E j \in 1..Len(broadcasts) : broadcasts[j] = <<"audit:entry", audit[i]>>

\* C35: for every decision, the first audit entry in ledger order that
\* references its id is its decision_created entry; no decision_reviewed,
\* decision_overturned or enforcement entry of a decision precedes it, with
\* review and overturn calls arriving at any point of the run that creates
\* the decision.
C35_CreatedEntryFirst ==
  \A i \in 1..Len(audit) :
    audit[i].decision_id # None =>
      \E j \in 1..i :
        /\ audit[j].decision_id = audit[i].decision_id
        /\ audit[j].action_type = "decision_created"
        /\ \A h \in 1..(j - 1) : audit[h].decision_id # audit[i].decision_id

\* The second or a later call of the decision API was an accepted review:
\* the decision's entries begin with decision_created and the review's entry
\* comes after it.
C35_Witness ==
  /\ resp = Response("review_decision", "dec-1", "success")
  /\ calls.decision >= 2
  /\ \E i \in EntriesOf("dec-1", {"decision_reviewed"}) :
       \E j \in EntriesOf("dec-1", {"decision_created"}) : j < i
  /\ \A i \in EntriesOf("dec-1", {"decision_reviewed", "decision_overturned"}
                                   \cup EnforcementTypes) :
       \E j \in EntriesOf("dec-1", {"decision_created"}) : j < i

\* C36: in every reachable state the audit ledger holds, for every decision,
\* at most one decision_overturned entry referencing it, whatever review and
\* overturn calls have been applied to the decision.
C36_AtMostOneOverturnedEntry ==
  \A id \in DOMAIN decisions : Cardinality(OverturnedEntries(audit, id)) <= 1

\* The status that an audit entry of a given type records for its decision.
ImpliedStatus(type) ==
  CASE type = "decision_created" -> "pending"
    [] type \in EnforcementTypes -> "executed"
    [] type = "decision_reviewed" -> "reviewed"
    [] type = "decision_overturned" -> "overturned"

StatusChangingTypes ==
  {"decision_created", "decision_reviewed", "decision_overturned"} \cup EnforcementTypes

\* C37: between operations (every state of the ledgers lies between two
\* handlers' runs of reads and writes), each decision's stored status equals
\* the status implied by the last audit entry that references it among
\* decision_created (pending), participant_warned, participant_muted and
\* content_flagged (executed), decision_reviewed (reviewed) and
\* decision_overturned (overturned).
C37_StatusFromAuditTrail ==
  \A id \in DOMAIN decisions :
    LET entries == EntriesOf(id, StatusChangingTypes) IN
    /\ entries # {}
    /\ LET last == CHOOSE i \in entries : \A j \in entries : j <= i
       IN decisions[id].status = ImpliedStatus(audit[last].action_type)

\* Two runs, a review and an overturn have written in some interleaving:
\* one decision was enforced, reviewed and then overturned, and another
\* stands as created, each with the status of its last entry.
C37_Witness ==
  /\ DOMAIN decisions = {"dec-1", "dec-2"}
  /\ \E a \in DOMAIN decisions, b \in DOMAIN decisions :
       /\ decisions[a].status = "overturned"
       /\ EntriesOf(a, EnforcementTypes) # {}
       /\ EntriesOf(a, {"decision_reviewed"}) # {}
       /\ decisions[b].status = "pending"

\* The severity order none < warn < mute < flag_for_review.
Severity(action) ==
  CASE action = "none" -> 0
    [] action = "warn" -> 1
    [] action = "mute" -> 2
    [] action = "flag_for_review" -> 3

\* C38: for two calls of decide with the same category on the same registry,
\* where the policy matched is enabled and has warn <= mute <= flag, the call
\* with the higher (or equal) confidence returns an action at least as severe
\* under none < warn < mute < flag_for_review.
C38_MonotoneInConfidence ==
  \A r1 \in 1..Len(runs), r2 \in 1..Len(runs) :
    (/\ runs[r1].pc = "action" /\ runs[r2].pc = "action"
     /\ runs[r1].category = runs[r2].category /\ runs[r1].category # "none"
     /\ runs[r1].confidence[1] <= runs[r2].confidence[1]) =>
      \A id \in FirstMatching(runs[r1].category) :
        (policies[id].enabled /\ ThresholdsOrdered(policies[id])) =>
          Severity(runs[r1].action) <= Severity(runs[r2].action)

\* The same ordered, enabled spam policy has decided warn for one confidence
\* and mute for a higher one.
C38_Witness ==
  \E r1 \in 1..Len(runs), r2 \in 1..Len(runs) :
    /\ runs[r1].pc = "action" /\ runs[r2].pc = "action"
    /\ runs[r1].category = "spam" /\ runs[r2].category = "spam"
    /\ runs[r1].confidence[1] < runs[r2].confidence[1]
    /\ runs[r1].action = "warn" /\ runs[r2].action = "mute"
    /\ \E id \in FirstMatching("spam") :
         /\ policies[id].enabled /\ ThresholdsOrdered(policies[id])
         /\ policies[id].warn_threshold < policies[id].mute_threshold
         /\ policies[id].mute_threshold < policies[id].flag_threshold

\* C39: every Decision in the ledger whose action is not none has a
\* classification other than none and a policy_id that names a policy of the
\* registry whose category is that classification, and every Decision whose
\* classification is none has confidence 0.0, action none and no policy_id.
C39_DecisionConsistent ==
  \A id \in DOMAIN decisions :
    LET decision == decisions[id] IN
    /\ decision.action # "none" =>
         /\ decision.classification # "none"
         /\ decision.policy_id # None
         /\ decision.policy_id \in DOMAIN policies
         /\ policies[decision.policy_id].category = decision.classification
    /\ decision.classification = "none" =>
         /\ decision.confidence_score = 0
         /\ decision.action = "none"
         /\ decision.policy_id = None

\* The ledger holds an enforced spam decision decided by the spam policy and
\* a decision classified none.
C39_Witness ==
  \E a \in DOMAIN decisions, b \in DOMAIN decisions :
    /\ decisions[a].action \in {"warn", "mute", "flag_for_review"}
    /\ decisions[a].classification = "spam"
    /\ decisions[a].policy_id = "policy-spam"
    /\ decisions[b].classification = "none"
    /\ decisions[b].confidence_score = 0
    /\ decisions[b].policy_id = None

====
